---- MODULE Spec2Model ----
(***************************************************************************)
(* The lobby backend (backend/src/index.ts): an express + socket.io server *)
(* holding lobbies, rosters and an SQLite message table, with a detached   *)
(* assistant task per sent message.                                        *)
(*                                                                         *)
(* One action per handler.  A handler runs to completion on the single     *)
(* node.js thread, so each action is the whole handler; the only           *)
(* suspension point of the program is the await of the provider call in    *)
(* sendAssistantMessage, which splits that function into the part run      *)
(* inside the message handler and the ProviderReturn action.               *)
(*                                                                         *)
(* Under SpecTwin the program is run twice in lockstep on the same         *)
(* requests, the second run (variables ending in 2) being given another    *)
(* credential wherever the first is given one; the other specifications    *)
(* leave the second run idle.                                              *)
(***************************************************************************)
EXTENDS Integers, Sequences, FiniteSets, TLC

\* ---------------------------------------------------------------- bounds
MaxSockets == 2
MaxRows == 2
MaxTime == 2
MaxPending == 1

\* ------------------------------------------------------ program constants
NicknameMin == 1
NicknameMax == 32
KeyMin == 1
KeyMax == 200
CodeMin == 4
CodeMax == 10
CodeLength == 6
ContentMin == 1
ContentMax == 400

\* JavaScript's undefined, for an absent optional value.
Undefined == "$undefined"

RECURSIVE Rep(_, _)
Rep(s, n) ==
  IF n = 0 THEN ""
  ELSE IF n % 2 = 0 THEN LET h == Rep(s, n \div 2) IN h \o h
  ELSE s \o Rep(s, n - 1)

\* ----------------------------------------------------------- input values
Sockets == 1..MaxSockets
Times == 1..MaxTime
\* Two of the codes generateCode can return.
GenCodes == {Rep("A", CodeLength), Rep("B", CodeLength)}
Nicks == {"Al", "Bo"}
MsgNicks == {"Al"}
Content1 == "h"
Content400 == "x*400"
Content401 == "x*401"
ValidContents == {Content1, Content400}
ClientContents == ValidContents \cup {"", Content401}
\* Credentials a client may supply to the first run, and to the second run.
Keys == {"sk-1"}
Keys2 == {"sk-1", "sk-2"}
EnvKey == "sk-env"
\* What the completion provider may return as the first choice's content.
ProviderTexts == {"Nice!", Undefined}
ProviderErrors == {"401 Incorrect API key"}

\* -------------------------------------------------------- fixed strings
AssistantSender == "DM"
NoKeyText == "No OpenAI API key configured for this lobby."
ReadyText == "Ready to keep chatting!"
UnavailableText == "The DM is unavailable right now."
InvalidPayload == "Invalid payload"
LobbyNotFound == "Lobby not found"

VARIABLES
  env,               \* process.env.OPENAI_API_KEY
  lobbies,           \* Map code -> LobbyData
  lobbyUsers,        \* Map code -> Map socket id -> nickname (insertion order)
  socketToLobby,     \* Map socket id -> code
  socketToNickname,  \* Map socket id -> nickname
  rooms,             \* socket.io rooms: code -> set of socket ids
  conn,              \* socket id -> "new" | "open" | "closed"
  db,                \* rows of table messages, in insertion order
  pending,           \* assistant tasks awaiting the provider
  out,               \* what the last handler sent: emits, acknowledgement, response
  sends,             \* history: accepted sends, as code -> content -> count
  lobbies2, db2, pending2, out2   \* the second run

vars == <<env, lobbies, lobbyUsers, socketToLobby, socketToNickname, rooms, conn,
          db, pending, out, sends, lobbies2, db2, pending2, out2>>

member == <<lobbyUsers, socketToLobby, socketToNickname, rooms>>

\* ------------------------------------------------------------ JS helpers
Falsy(x) == x = Undefined \/ x = ""

\* a || b
Or(a, b) == IF Falsy(a) THEN b ELSE a

Has(m, k) == k \in DOMAIN m

\* Map.set on a map held as a function
MapSet(m, k, v) == [x \in DOMAIN m \cup {k} |-> IF x = k THEN v ELSE m[x]]

MapDelete(m, k) == [x \in DOMAIN m \ {k} |-> m[x]]

\* An insertion-ordered Map held as a sequence of <<key, value>>.
OMapKeys(om) == {om[i][1] : i \in DOMAIN om}

\* A list of entries in place of a Map: set adds an entry each time.
OMapSetAppend(om, k, v) == Append(om, <<k, v>>)

OMapSet(om, k, v) ==
  IF k \in OMapKeys(om)
    THEN [i \in DOMAIN om |-> IF om[i][1] = k THEN <<k, v>> ELSE om[i]]
    ELSE Append(om, <<k, v>>)

OMapDelete(om, k) == SelectSeq(om, LAMBDA e : e[1] # k)

OMapValues(om) == [i \in DOMAIN om |-> om[i][2]]

\* ----------------------------------------------------------------- zod
\* String.length; the two long contents are written by name.
Length(s) ==
  IF s = Content400 THEN ContentMax
  ELSE IF s = Content401 THEN ContentMax + 1
  ELSE Len(s)

StringLen(s, lo, hi) == Length(s) >= lo /\ Length(s) <= hi

CreateLobbySchemaOk(body) ==
  /\ StringLen(body.nickname, NicknameMin, NicknameMax)
  /\ (body.openaiApiKey = Undefined \/ StringLen(body.openaiApiKey, KeyMin, KeyMax))

JoinLobbySchemaOk(payload) ==
  /\ StringLen(payload.code, CodeMin, CodeMax)
  /\ StringLen(payload.nickname, NicknameMin, NicknameMax)

\* messageSchema without its upper limit of 400.
MessageSchemaNoMax(payload) ==
  StringLen(payload.content, ContentMin, ContentMax + 1)

MessageSchemaOk(payload) ==
  StringLen(payload.content, ContentMin, ContentMax)

\* parsed.error.flatten(): the names of the fields that failed, no values.
CreateLobbyFieldErrors(body) ==
  {f \in {"nickname", "openaiApiKey"} :
     \/ f = "nickname" /\ ~StringLen(body.nickname, NicknameMin, NicknameMax)
     \/ f = "openaiApiKey" /\ body.openaiApiKey # Undefined
          /\ ~StringLen(body.openaiApiKey, KeyMin, KeyMax)}

JoinLobbyFieldErrors(payload) ==
  {f \in {"code", "nickname"} :
     \/ f = "code" /\ ~StringLen(payload.code, CodeMin, CodeMax)
     \/ f = "nickname" /\ ~StringLen(payload.nickname, NicknameMin, NicknameMax)}

\* -------------------------------------------------------------- outputs
NoOut == [op |-> "none", sid |-> 0, emits |-> <<>>, acks |-> <<>>, res |-> <<>>]

Out(op, sid, emits, acks, res) ==
  [op |-> op, sid |-> sid, emits |-> emits, acks |-> acks, res |-> res]

\* callback?.({}) and callback?.({ error })
AckOk == <<[error |-> Undefined]>>
AckError(e) == <<[error |-> e]>>

\* io.to(code).emit(event, payload): delivered to the sockets in the room now.
Emit(rms, code, event, payload) ==
  [event |-> event, room |-> code, to |-> rms[code], payload |-> payload]

\* broadcastUsers called before the handler has changed the table.
BroadcastUsersBefore(users, rms, code) ==
  Emit(rms, code, "users",
       OMapValues(IF Has(lobbyUsers, code) THEN lobbyUsers[code] ELSE <<>>))

\* broadcastUsers(code)
BroadcastUsers(users, rms, code) ==
  Emit(rms, code, "users",
       OMapValues(IF Has(users, code) THEN users[code] ELSE <<>>))

\* ----------------------------------------------------------------- Init
InitEnv(e) ==
  /\ env = e
  /\ lobbies = <<>> /\ lobbies2 = <<>>
  /\ lobbyUsers = <<>>
  /\ socketToLobby = <<>>
  /\ socketToNickname = <<>>
  /\ rooms = [c \in GenCodes |-> {}]
  /\ conn = [s \in Sockets |-> "new"]
  /\ db = <<>> /\ db2 = <<>>
  /\ pending = <<>> /\ pending2 = <<>>
  /\ out = NoOut /\ out2 = NoOut
  /\ sends = [c \in GenCodes |-> [x \in ValidContents |-> 0]]

\* The server started with OPENAI_API_KEY unset.
Init == InitEnv(Undefined)

\* The server started with OPENAI_API_KEY unset or set.
InitAnyEnv == \E e \in {Undefined, EnvKey} : InitEnv(e)

\* ------------------------------------------------------- POST /lobby
LobbyData(code, body, e) == [code |-> code, openaiKey |-> Or(body.openaiApiKey, e)]

\* POST /lobby answering with the key it was given next to the code.
PostLobbyResponseEcho(body, code) ==
  IF ~CreateLobbySchemaOk(body)
    THEN [status |-> 400, error |-> InvalidPayload, details |-> CreateLobbyFieldErrors(body)]
    ELSE [status |-> 200, code |-> code, openaiKey |-> body.openaiApiKey]

PostLobbyResponse(body, code) ==
  IF ~CreateLobbySchemaOk(body)
    THEN [status |-> 400, error |-> InvalidPayload, details |-> CreateLobbyFieldErrors(body)]
    ELSE [status |-> 200, code |-> code]

PostLobby(body, code) ==
  /\ IF CreateLobbySchemaOk(body)
       THEN /\ lobbies' = MapSet(lobbies, code, LobbyData(code, body, env))
            /\ lobbyUsers' = MapSet(lobbyUsers, code, <<>>)
       ELSE UNCHANGED <<lobbies, lobbyUsers>>
  /\ out' = Out("createLobby", 0, <<>>, <<>>, <<PostLobbyResponse(body, code)>>)
  /\ UNCHANGED <<env, socketToLobby, socketToNickname, rooms, conn, db, pending, sends>>

PostLobby2(body2, code) ==
  /\ lobbies2' = IF CreateLobbySchemaOk(body2)
                   THEN MapSet(lobbies2, code, LobbyData(code, body2, env))
                   ELSE lobbies2
  /\ out2' = Out("createLobby", 0, <<>>, <<>>, <<PostLobbyResponse(body2, code)>>)
  /\ UNCHANGED <<db2, pending2>>

\* --------------------------------------------------- POST /lobby/join
PostLobbyJoinResponse(L, body) ==
  IF ~JoinLobbySchemaOk(body)
    THEN [status |-> 400, error |-> InvalidPayload, details |-> JoinLobbyFieldErrors(body)]
    ELSE IF ~Has(L, body.code)
      THEN [status |-> 404, error |-> LobbyNotFound]
      ELSE [status |-> 200, ok |-> TRUE]

PostLobbyJoin(body) ==
  /\ out' = Out("joinLobbyHttp", 0, <<>>, <<>>, <<PostLobbyJoinResponse(lobbies, body)>>)
  /\ UNCHANGED <<env, lobbies, member, conn, db, pending, sends>>

PostLobbyJoin2(body) ==
  /\ out2' = Out("joinLobbyHttp", 0, <<>>, <<>>, <<PostLobbyJoinResponse(lobbies2, body)>>)
  /\ UNCHANGED <<lobbies2, db2, pending2>>

\* ------------------------------------------------- io.on('connection')
Connection(s) ==
  /\ conn[s] = "new"
  /\ conn' = [conn EXCEPT ![s] = "open"]
  /\ out' = Out("connection", s, <<>>, <<>>, <<>>)
  /\ UNCHANGED <<env, lobbies, member, db, pending, sends>>

\* ------------------------------------------------ socket.on('joinLobby')
\* joinLobby without the lobbies.has(code) check.
JoinLobbyAckNoLookup(L, payload) ==
  IF ~JoinLobbySchemaOk(payload) THEN AckError(InvalidPayload) ELSE AckOk

JoinLobbyAck(L, payload) ==
  IF ~JoinLobbySchemaOk(payload) THEN AckError(InvalidPayload)
  ELSE IF ~Has(L, payload.code) THEN AckError(LobbyNotFound)
  ELSE AckOk

JoinedUsers(s, payload) ==
  MapSet(lobbyUsers, payload.code,
         OMapSet(IF Has(lobbyUsers, payload.code) THEN lobbyUsers[payload.code] ELSE <<>>,
                 s, payload.nickname))

JoinedRooms(s, payload) == [rooms EXCEPT ![payload.code] = @ \cup {s}]

\* What the handler does to the membership state and what it sends.
OnJoinLobby(s, payload) ==
  IF JoinLobbyAck(lobbies, payload) # AckOk
    THEN [lobbyUsers |-> lobbyUsers, socketToLobby |-> socketToLobby,
          socketToNickname |-> socketToNickname, rooms |-> rooms,
          emits |-> <<>>, acks |-> JoinLobbyAck(lobbies, payload)]
    ELSE [lobbyUsers |-> JoinedUsers(s, payload),
          socketToLobby |-> MapSet(socketToLobby, s, payload.code),
          socketToNickname |-> MapSet(socketToNickname, s, payload.nickname),
          rooms |-> JoinedRooms(s, payload),
          emits |-> <<BroadcastUsers(JoinedUsers(s, payload), JoinedRooms(s, payload),
                                     payload.code)>>,
          acks |-> AckOk]

JoinLobby(s, payload) ==
  /\ conn[s] = "open"
  /\ \E j \in {OnJoinLobby(s, payload)} :
       /\ lobbyUsers' = j.lobbyUsers
       /\ socketToLobby' = j.socketToLobby
       /\ socketToNickname' = j.socketToNickname
       /\ rooms' = j.rooms
       /\ out' = Out("joinLobby", s, j.emits, j.acks, <<>>)
  /\ UNCHANGED <<env, lobbies, conn, db, pending, sends>>

\* ----------------------------------------------- socket.on('disconnect')
\* The transport takes the socket out of every room before the handler runs.
LeftRooms(s) == [c \in DOMAIN rooms |-> rooms[c] \ {s}]

LeftUsers(s, code) == MapSet(lobbyUsers, code, OMapDelete(lobbyUsers[code], s))

OnDisconnect(s) ==
  IF ~Has(socketToLobby, s) \/ Falsy(socketToLobby[s])
    THEN [lobbyUsers |-> lobbyUsers, socketToLobby |-> socketToLobby,
          socketToNickname |-> socketToNickname, rooms |-> LeftRooms(s), emits |-> <<>>]
    ELSE LET code == socketToLobby[s] IN
         [lobbyUsers |-> IF Has(lobbyUsers, code) THEN LeftUsers(s, code) ELSE lobbyUsers,
          socketToLobby |-> MapDelete(socketToLobby, s),
          socketToNickname |-> MapDelete(socketToNickname, s),
          rooms |-> LeftRooms(s),
          emits |-> IF Has(lobbyUsers, code)
                      THEN <<BroadcastUsers(LeftUsers(s, code), LeftRooms(s), code)>>
                      ELSE <<>>]

Disconnect(s) ==
  /\ conn[s] = "open"
  /\ conn' = [conn EXCEPT ![s] = "closed"]
  /\ \E d \in {OnDisconnect(s)} :
       /\ lobbyUsers' = d.lobbyUsers
       /\ socketToLobby' = d.socketToLobby
       /\ socketToNickname' = d.socketToNickname
       /\ rooms' = d.rooms
       /\ out' = Out("disconnect", s, d.emits, <<>>, <<>>)
  /\ UNCHANGED <<env, lobbies, db, pending, sends>>

\* The handlers above that read no credential send the same in the second run.
Same2 ==
  /\ out2' = out'
  /\ UNCHANGED <<lobbies2, db2, pending2>>

\* ------------------------------------------------------------ Date.now()
\* The values successive Date.now() calls of one handler run return: the
\* clock may step between two calls, and between handlers it may be set back.
Reads(n) == {r \in [1..n -> Times] : \A i \in 1..(n - 1) : r[i] <= r[i + 1]}

\* ------------------------------------------------------- table messages
\* A table that hands out its rows newest first.
InsertMessageFirst(D, code, sender, role, content, createdAt) ==
  <<[id |-> Len(D) + 1, lobbyCode |-> code, sender |-> sender, role |-> role,
     content |-> content, createdAt |-> createdAt]>> \o D

\* insertMessage.run: id is the AUTOINCREMENT rowid, rows are never deleted.
InsertMessage(D, code, sender, role, content, createdAt) ==
  Append(D, [id |-> Len(D) + 1, lobbyCode |-> code, sender |-> sender, role |-> role,
             content |-> content, createdAt |-> createdAt])

RowsOf(D, code) == {i \in DOMAIN D : D[i].lobbyCode = code}

\* selectMessages without its ORDER BY: the rows in rowid order.
OrderedByRowid(D, f) == \A i, j \in DOMAIN f : i < j => f[i] < f[j]

\* ORDER BY createdAt ASC
OrderedBy(D, f) == \A i, j \in DOMAIN f : i < j => D[f[i]].createdAt <= D[f[j]].createdAt

\* selectMessages.all(code): the rows of the lobby by createdAt; SQL leaves the
\* order of rows with equal createdAt open, so every such order is a result.
SelectMessages(D, code) ==
  LET I == RowsOf(D, code)
      n == Cardinality(I)
  IN {[k \in 1..n |-> D[f[k]]] :
        f \in {g \in [1..n -> I] : (\A a, b \in 1..n : a # b => g[a] # g[b]) /\ OrderedBy(D, g)}}

\* ------------------------------------------------ sendAssistantMessage
ChatMessage(id, sender, role, content, createdAt) ==
  [id |-> id, sender |-> sender, role |-> role, content |-> content, createdAt |-> createdAt]

\* The reply shown when the lobby has no key.
NoKeyMessage(r) == ChatMessage(r[1], AssistantSender, "assistant", NoKeyText, r[2])

\* The reply shown when the try block threw.
UnavailableMessage(r) == ChatMessage(r[1], AssistantSender, "assistant", UnavailableText, r[2])

AssistantTask(L, code, content) ==
  [code |-> code, content |-> content,
   apiKey |-> IF Has(L, code) THEN L[code].openaiKey ELSE Undefined]

\* sendAssistantMessage returning at once, with no reply, when there is no key.
AssistantStartSilent(L, P, rms, code, content, r) ==
  IF Falsy(AssistantTask(L, code, content).apiKey)
    THEN [emits |-> <<>>, pending |-> P]
    ELSE [emits |-> <<>>, pending |-> Append(P, AssistantTask(L, code, content))]

\* The part of sendAssistantMessage run before its first await, inside the
\* message handler: [emits, pending].
AssistantStart(L, P, rms, code, content, r) ==
  LET task == AssistantTask(L, code, content) IN
  IF Falsy(task.apiKey)
    THEN [emits |-> <<Emit(rms, code, "message", NoKeyMessage(r))>>, pending |-> P]
    ELSE [emits |-> <<>>, pending |-> Append(P, task)]

\* completion.choices[0]?.message?.content || 'Ready to keep chatting!'
AssistantText(text) == Or(text, ReadyText)

RemoveAt(P, i) == [k \in 1..(Len(P) - 1) |-> IF k < i THEN P[k] ELSE P[k + 1]]

\* sendAssistantMessage whose catch block sends the error's message.
AssistantFinishLeak(D, P, rms, i, outcome, dbOk, r) ==
  IF outcome.ok /\ dbOk
    THEN [db |-> InsertMessage(D, P[i].code, AssistantSender, "assistant",
                               AssistantText(outcome.text), r[1]),
          pending |-> RemoveAt(P, i),
          emits |-> <<Emit(rms, P[i].code, "message",
                           ChatMessage(r[1], AssistantSender, "assistant",
                                       AssistantText(outcome.text), r[1]))>>]
    ELSE [db |-> D, pending |-> RemoveAt(P, i),
          emits |-> <<Emit(rms, P[i].code, "message",
                           ChatMessage(r[1], AssistantSender, "assistant",
                                       Or(outcome.error, UnavailableText), r[2]))>>]

\* The part of sendAssistantMessage run when the provider call settles:
\* [db, pending, emits].  outcome is [ok, text, error]; dbOk is whether
\* insertMessage.run returns rather than throws.
AssistantFinish(D, P, rms, i, outcome, dbOk, r) ==
  LET task == P[i] IN
  IF outcome.ok /\ dbOk
    THEN [db |-> InsertMessage(D, task.code, AssistantSender, "assistant",
                               AssistantText(outcome.text), r[1]),
          pending |-> RemoveAt(P, i),
          emits |-> <<Emit(rms, task.code, "message",
                           ChatMessage(r[1], AssistantSender, "assistant",
                                       AssistantText(outcome.text), r[1]))>>]
    ELSE [db |-> D, pending |-> RemoveAt(P, i),
          emits |-> <<Emit(rms, task.code, "message", UnavailableMessage(r))>>]

\* ------------------------------------------------- socket.on('message')
\* [db, pending, emits, acks].  When insertMessage.run throws, the async
\* handler rejects at that line: nothing is emitted and the callback is not
\* called.
\* The message handler without its lobbies.has(code) check.
MessageAckNoLookup(L, payload) ==
  IF ~MessageSchemaOk(payload) THEN AckError(InvalidPayload) ELSE AckOk

MessageAck(L, payload) ==
  IF ~MessageSchemaOk(payload) THEN AckError(InvalidPayload)
  ELSE IF ~Has(L, payload.code) THEN AckError(LobbyNotFound)
  ELSE AckOk

UserMessage(payload, createdAt) ==
  ChatMessage(createdAt, payload.nickname, "user", payload.content, createdAt)

\* The handler calling sendAssistantMessage before it sends the user message.
OnMessageAssistantFirst(L, D, P, rms, payload, dbOk, r) ==
  IF MessageAck(L, payload) # AckOk
    THEN [db |-> D, pending |-> P, emits |-> <<>>, acks |-> MessageAck(L, payload)]
  ELSE IF ~dbOk
    THEN [db |-> D, pending |-> P, emits |-> <<>>, acks |-> <<>>]
  ELSE LET a == AssistantStart(L, P, rms, payload.code, payload.content, <<r[2], r[3]>>) IN
       [db |-> InsertMessage(D, payload.code, payload.nickname, "user", payload.content, r[1]),
        pending |-> a.pending,
        emits |-> a.emits \o <<Emit(rms, payload.code, "message", UserMessage(payload, r[1]))>>,
        acks |-> AckOk]

\* The handler with sendAssistantMessage awaited: the callback is left to
\* the end of the assistant's task.
OnMessageAwaiting(L, D, P, rms, payload, dbOk, r) ==
  IF MessageAck(L, payload) # AckOk
    THEN [db |-> D, pending |-> P, emits |-> <<>>, acks |-> MessageAck(L, payload)]
  ELSE IF ~dbOk
    THEN [db |-> D, pending |-> P, emits |-> <<>>, acks |-> <<>>]
  ELSE LET a == AssistantStart(L, P, rms, payload.code, payload.content, <<r[2], r[3]>>) IN
       [db |-> InsertMessage(D, payload.code, payload.nickname, "user", payload.content, r[1]),
        pending |-> a.pending,
        emits |-> <<Emit(rms, payload.code, "message", UserMessage(payload, r[1]))>> \o a.emits,
        acks |-> IF a.pending = P THEN AckOk ELSE <<>>]

OnMessage(L, D, P, rms, payload, dbOk, r) ==
  IF MessageAck(L, payload) # AckOk
    THEN [db |-> D, pending |-> P, emits |-> <<>>, acks |-> MessageAck(L, payload)]
  ELSE IF ~dbOk
    THEN [db |-> D, pending |-> P, emits |-> <<>>, acks |-> <<>>]
  ELSE LET a == AssistantStart(L, P, rms, payload.code, payload.content, <<r[2], r[3]>>) IN
       [db |-> InsertMessage(D, payload.code, payload.nickname, "user", payload.content, r[1]),
        pending |-> a.pending,
        emits |-> <<Emit(rms, payload.code, "message", UserMessage(payload, r[1]))>> \o a.emits,
        acks |-> AckOk]

Message(s, payload, dbOk, r) ==
  /\ conn[s] = "open"
  /\ \E m \in {OnMessage(lobbies, db, pending, rooms, payload, dbOk, r)} :
       /\ m.db = db \/ Len(m.db) <= MaxRows
       /\ m.pending = pending \/ Len(m.pending) <= MaxPending
       /\ db' = m.db /\ pending' = m.pending
       /\ out' = Out("message", s, m.emits, m.acks, <<>>)
       /\ sends' = IF m.acks = AckOk
                     THEN [sends EXCEPT ![payload.code][payload.content] = @ + 1]
                     ELSE sends
  /\ UNCHANGED <<env, lobbies, member, conn>>

Message2(s, payload, dbOk, r) ==
  /\ \E m2 \in {OnMessage(lobbies2, db2, pending2, rooms, payload, dbOk, r)} :
       /\ db2' = m2.db /\ pending2' = m2.pending
       /\ out2' = Out("message", s, m2.emits, m2.acks, <<>>)
  /\ UNCHANGED lobbies2

\* The provider call of pending task i settles.
ProviderReturn(i, outcome, dbOk, r) ==
  /\ i \in DOMAIN pending
  /\ \E a \in {AssistantFinish(db, pending, rooms, i, outcome, dbOk, r)} :
       /\ db' = a.db /\ pending' = a.pending
       /\ out' = Out("assistant", 0, a.emits, <<>>, <<>>)
  /\ UNCHANGED <<env, lobbies, member, conn, sends>>

\* The second run has a task i only if it started one for the same send.
ProviderReturn2(i, outcome, dbOk, r) ==
  /\ IF i \in DOMAIN pending2
       THEN \E a2 \in {AssistantFinish(db2, pending2, rooms, i, outcome, dbOk, r)} :
              /\ db2' = a2.db /\ pending2' = a2.pending
              /\ out2' = Out("assistant", 0, a2.emits, <<>>, <<>>)
       ELSE /\ UNCHANGED <<db2, pending2>>
            /\ out2' = Out("assistant", 0, <<>>, <<>>, <<>>)
  /\ UNCHANGED lobbies2

\* ------------------------------------------- GET /lobby/:code/messages
GetMessagesResponses(L, D, code) ==
  IF ~Has(L, code)
    THEN {[status |-> 404, error |-> LobbyNotFound]}
    ELSE {[status |-> 200, messages |-> rows] : rows \in SelectMessages(D, code)}

GetMessages(code) ==
  /\ \E res \in GetMessagesResponses(lobbies, db, code) :
       out' = Out("getMessages", 0, <<>>, <<>>, <<res>>)
  /\ UNCHANGED <<env, lobbies, member, conn, db, pending, sends>>

\* Both runs' SQLite order rows of equal createdAt the same way.
RowIds(res) == IF res.status = 200 THEN [k \in DOMAIN res.messages |-> res.messages[k].id] ELSE <<>>

GetMessages2(code) ==
  /\ \E res2 \in GetMessagesResponses(lobbies2, db2, code) :
       /\ out2' = Out("getMessages", 0, <<>>, <<>>, <<res2>>)
       /\ out'.res[1].status = res2.status => RowIds(out'.res[1]) = RowIds(res2)
  /\ UNCHANGED <<lobbies2, db2, pending2>>

\* ------------------------------------------------------------ requests
CodeA == Rep("A", CodeLength)
CreateBodies ==
  {[nickname |-> "Al", openaiApiKey |-> Undefined], [nickname |-> "Al", openaiApiKey |-> "sk-1"],
   [nickname |-> "", openaiApiKey |-> "sk-1"], [nickname |-> "Al", openaiApiKey |-> ""]}
BadJoinPayloads == {[code |-> "ZZ", nickname |-> "Al"], [code |-> CodeA, nickname |-> ""]}
JoinPayloads == [code : GenCodes, nickname : {"Al"}]
RosterJoinPayloads == [code : GenCodes, nickname : Nicks] \cup BadJoinPayloads
MessagePayloads == [code : GenCodes, nickname : MsgNicks, content : ClientContents]
ClockMessagePayloads == [code : GenCodes, nickname : MsgNicks, content : {Content1}]
ProviderOutcomes ==
  {[ok |-> TRUE, text |-> t, error |-> Undefined] : t \in ProviderTexts}
  \cup {[ok |-> FALSE, text |-> Undefined, error |-> e] : e \in ProviderErrors}
\* A clock that stands still, and one that moves.
StillReads2 == {<<1, 1>>}
StillReads3 == {<<1, 1, 1>>}
Reads2 == Reads(2)
Reads3 == Reads(3)

\* The second run's request: the same, with another credential when one is given.
OtherKey(body) ==
  [body EXCEPT !.openaiApiKey = IF @ \in Keys THEN CHOOSE k \in Keys2 : k # @ ELSE @]

\* The second run is not made.
Idle2 == UNCHANGED <<lobbies2, db2, pending2, out2>>

\* Clients that join one lobby per connection, as the mobile client does, and
\* chat; generateCode returns fresh codes.
Chat(payloads, reads3, reads2) ==
  \/ \E body \in CreateBodies, code \in GenCodes :
       ~Has(lobbies, code) /\ PostLobby(body, code) /\ Idle2
  \/ \E code \in GenCodes : GetMessages(code) /\ Idle2
  \/ \E s \in Sockets : Connection(s) /\ Idle2
  \/ \E s \in Sockets, payload \in JoinPayloads :
       ~Has(socketToLobby, s) /\ JoinLobby(s, payload) /\ Idle2
  \/ \E s \in Sockets, payload \in payloads :
       \E dbOk \in (IF MessageAck(lobbies, payload) = AckOk THEN BOOLEAN ELSE {TRUE}) :
         \E r \in (IF dbOk THEN reads3 ELSE StillReads3) :
           Message(s, payload, dbOk, r) /\ Idle2
  \/ \E i \in 1..MaxPending, outcome \in ProviderOutcomes, dbOk \in BOOLEAN, r \in reads2 :
       ProviderReturn(i, outcome, dbOk, r) /\ Idle2
  \/ \E s \in Sockets : Disconnect(s) /\ Idle2

\* Chat with contents of every length, under a clock that stands still.
Next == Chat(MessagePayloads, StillReads3, StillReads2)

Spec == Init /\ [][Next]_vars

\* Chat with one content, under a clock that moves.
NextClock == Chat(ClockMessagePayloads, Reads3, Reads2)

SpecClock == Init /\ [][NextClock]_vars

\* Clients that join any lobby at any time under any nickname, and do not
\* chat; generateCode may return a code in use.
NextRoster ==
  \/ \E body \in CreateBodies, code \in GenCodes : PostLobby(body, code) /\ Idle2
  \/ \E body \in RosterJoinPayloads : PostLobbyJoin(body) /\ Idle2
  \/ \E s \in Sockets : Connection(s) /\ Idle2
  \/ \E s \in Sockets, payload \in RosterJoinPayloads : JoinLobby(s, payload) /\ Idle2
  \/ \E s \in Sockets : Disconnect(s) /\ Idle2

SpecRoster == Init /\ [][NextRoster]_vars

\* The chat of Next made twice, the second run with other credentials, on a
\* server started with or without a default credential.
NextTwin ==
  \/ \E body \in CreateBodies, code \in GenCodes :
       ~Has(lobbies, code) /\ PostLobby(body, code) /\ PostLobby2(OtherKey(body), code)
  \/ \E body \in JoinPayloads \cup BadJoinPayloads : PostLobbyJoin(body) /\ PostLobbyJoin2(body)
  \/ \E code \in GenCodes : GetMessages(code) /\ GetMessages2(code)
  \/ \E s \in Sockets : Connection(s) /\ Same2
  \/ \E s \in Sockets, payload \in JoinPayloads :
       ~Has(socketToLobby, s) /\ JoinLobby(s, payload) /\ Same2
  \/ \E s \in Sockets, payload \in ClockMessagePayloads :
       \E dbOk \in (IF MessageAck(lobbies, payload) = AckOk THEN BOOLEAN ELSE {TRUE}) :
         Message(s, payload, dbOk, <<1, 1, 1>>) /\ Message2(s, payload, dbOk, <<1, 1, 1>>)
  \/ \E i \in 1..MaxPending, outcome \in ProviderOutcomes, dbOk \in BOOLEAN :
       ProviderReturn(i, outcome, dbOk, <<1, 1>>) /\ ProviderReturn2(i, outcome, dbOk, <<1, 1>>)
  \/ \E s \in Sockets : Disconnect(s) /\ Same2

SpecTwin == InitAnyEnv /\ [][NextTwin]_vars

\* =================================================================== claims
\* A claim about what a handler does is stated of every request the handler
\* can get in every reachable state, by the handler's result there, and of
\* the last handler's output in out.

IsError(acks) == Len(acks) = 1 /\ acks[1].error # Undefined

\* s has an entry in the membership table of the lobby.
IsMember(s, code) == Has(lobbyUsers, code) /\ s \in OMapKeys(lobbyUsers[code])

UsersEmits(emits, code) ==
  {k \in DOMAIN emits : emits[k].event = "users" /\ emits[k].room = code}

AssistantEmits(emits) ==
  {k \in DOMAIN emits : emits[k].event = "message" /\ emits[k].payload.role = "assistant"}

\* C1 (as claimed): every message event with content of length 1..400 for an
\* existing lobby, from any connection, is delivered as a user message to
\* every connection subscribed to the lobby at that moment, the sender
\* among them.
C1_DeliveredToSubscribersAndSender ==
  \A s \in Sockets, payload \in MessagePayloads, dbOk \in BOOLEAN :
    (conn[s] = "open" /\ Length(payload.content) \in 1..400 /\ Has(lobbies, payload.code))
      => \E m \in {OnMessage(lobbies, db, pending, rooms, payload, dbOk, <<1, 1, 1>>)} :
           /\ m.emits # <<>>
           /\ m.emits[1].event = "message"
           /\ m.emits[1].payload.role = "user"
           /\ m.emits[1].payload.content = payload.content
           /\ m.emits[1].to = rooms[payload.code]
           /\ s \in m.emits[1].to

\* C2: a message event whose content has length 0 or more than 400 gets an
\* error acknowledgement, nothing is stored or broadcast for it, and no user
\* row of the store has a content of length outside 1..400.
C2_InvalidContentRejected ==
  /\ \A payload \in MessagePayloads, dbOk \in BOOLEAN :
       Length(payload.content) \notin 1..400
         => \E m \in {OnMessage(lobbies, db, pending, rooms, payload, dbOk, <<1, 1, 1>>)} :
              IsError(m.acks) /\ m.db = db /\ m.emits = <<>> /\ m.pending = pending
  /\ \A i \in DOMAIN db : db[i].role = "user" => Length(db[i].content) \in 1..400
  /\ (out.op = "message" /\ IsError(out.acks)) => out.emits = <<>>

\* C2 witness: a message was rejected as invalid after another was stored.
C2_Witness ==
  out.op = "message" /\ out.acks = AckError(InvalidPayload) /\ Len(db) > 0

\* C3: a join for a code that is no lobby, by request or on a live
\* connection, is answered with an error; the live join leaves the
\* connection's memberships and subscriptions as they were and broadcasts
\* no roster.
C3_JoinUnknownCodeFails ==
  /\ \A payload \in RosterJoinPayloads :
       ~Has(lobbies, payload.code)
         => /\ PostLobbyJoinResponse(lobbies, payload).status # 200
            /\ PostLobbyJoinResponse(lobbies, payload).error \in {InvalidPayload, LobbyNotFound}
            /\ \A s \in Sockets : \E j \in {OnJoinLobby(s, payload)} :
                 /\ IsError(j.acks)
                 /\ j.emits = <<>>
                 /\ j.lobbyUsers = lobbyUsers /\ j.rooms = rooms
                 /\ j.socketToLobby = socketToLobby
                 /\ j.socketToNickname = socketToNickname
  /\ (out.op = "joinLobby" /\ out.acks # AckOk) => (IsError(out.acks) /\ out.emits = <<>>)
  /\ (out.op = "joinLobbyHttp" /\ out.res[1].status = 200) => "error" \notin DOMAIN out.res[1]

\* C3 witness: a member of one lobby was refused another code that is no lobby.
C3_Witness ==
  /\ out.op = "joinLobby" /\ out.acks = AckError(LobbyNotFound)
  /\ Has(socketToLobby, out.sid) /\ IsMember(out.sid, socketToLobby[out.sid])

\* C4 (as claimed): the disconnect of a connection sends, for every lobby it
\* is a member of, exactly one users broadcast whose roster is the lobby's
\* membership without the connection; the disconnect of a connection that
\* is a member of no lobby broadcasts nothing and changes no membership.
C4_DisconnectLeavesEveryLobby ==
  \A s \in Sockets :
    conn[s] = "open"
      => \E d \in {OnDisconnect(s)} :
           /\ \A code \in GenCodes :
                IsMember(s, code)
                  => /\ Cardinality(UsersEmits(d.emits, code)) = 1
                     /\ s \notin OMapKeys(d.lobbyUsers[code])
                     /\ \A k \in UsersEmits(d.emits, code) :
                          d.emits[k].payload = OMapValues(d.lobbyUsers[code])
           /\ ((\A code \in GenCodes : ~IsMember(s, code)) /\ ~Has(socketToLobby, s))
                => d.emits = <<>> /\ d.lobbyUsers = lobbyUsers

\* A send is accepted when its acknowledgement carries no error.
Accepted(m) == m.acks = AckOk

\* C5: in a lobby without a key (none given at creation, none in the
\* environment) every accepted send is followed by exactly one assistant
\* message, the fixed no-key text, sent to the lobby, and no provider call
\* is started.
C5_NoKeyFallback ==
  /\ \A payload \in MessagePayloads, dbOk \in BOOLEAN :
       (Has(lobbies, payload.code) /\ Falsy(lobbies[payload.code].openaiKey))
         => \E m \in {OnMessage(lobbies, db, pending, rooms, payload, dbOk, <<1, 1, 1>>)} :
              Accepted(m)
                => /\ Cardinality(AssistantEmits(m.emits)) = 1
                   /\ \A k \in AssistantEmits(m.emits) :
                        /\ m.emits[k].payload.content = NoKeyText
                        /\ m.emits[k].payload.sender = AssistantSender
                        /\ m.emits[k].room = payload.code
                        /\ m.emits[k].to = rooms[payload.code]
                        /\ k > 1
                   /\ m.pending = pending
  /\ \A i \in DOMAIN pending : ~Falsy(pending[i].apiKey)

\* C5 witness: a send to a lobby without a key was accepted and its no-key
\* reply went to a subscriber.
C5_Witness ==
  /\ out.op = "message" /\ out.acks = AckOk /\ Len(out.emits) = 2
  /\ out.emits[2].payload.content = NoKeyText
  /\ out.emits[2].to # {}
  /\ Falsy(lobbies[out.emits[2].room].openaiKey)

\* The strings a chat message or a roster carries to the clients.
EmitStrings(e) ==
  IF e.event = "users" THEN {e.payload[k] : k \in DOMAIN e.payload}
  ELSE {e.payload.sender, e.payload.role, e.payload.content}

\* C6: when the provider call or anything else in the assistant task fails,
\* the task sends exactly one assistant message, the fixed unavailable text,
\* to the lobby; the send that started the task was acknowledged without
\* error; nothing of the provider's error reaches a client.
C6_ProviderFailureFallback ==
  /\ \A i \in DOMAIN pending, outcome \in ProviderOutcomes, dbOk \in BOOLEAN :
       (~outcome.ok \/ ~dbOk)
         => \E a \in {AssistantFinish(db, pending, rooms, i, outcome, dbOk, <<1, 1>>)} :
              /\ Len(a.emits) = 1
              /\ a.emits[1].event = "message"
              /\ a.emits[1].payload.role = "assistant"
              /\ a.emits[1].payload.sender = AssistantSender
              /\ a.emits[1].payload.content = UnavailableText
              /\ a.emits[1].room = pending[i].code
              /\ a.emits[1].to = rooms[pending[i].code]
              /\ Len(a.pending) = Len(pending) - 1
  /\ \A payload \in MessagePayloads :
       (MessageSchemaOk(payload) /\ Has(lobbies, payload.code)
          /\ ~Falsy(lobbies[payload.code].openaiKey))
         => \E m \in {OnMessage(lobbies, db, pending, rooms, payload, TRUE, <<1, 1, 1>>)} :
              /\ Accepted(m)
              /\ m.pending = Append(pending, AssistantTask(lobbies, payload.code, payload.content))
  /\ out.op = "assistant" => out.acks = <<>>
  /\ \A k \in DOMAIN out.emits : EmitStrings(out.emits[k]) \cap ProviderErrors = {}

\* C6 witness: a provider call failed and the unavailable text went to a
\* subscriber.
C6_Witness ==
  /\ out.op = "assistant" /\ Len(out.emits) = 1
  /\ out.emits[1].payload.content = UnavailableText
  /\ out.emits[1].to # {}

\* C7 (as claimed): every assistant message sent to a lobby, on each of the
\* three paths, is also a row of the store, so that the history of the lobby
\* then holds it after a user message.
C7_AssistantMessageStored ==
  \A k \in AssistantEmits(out.emits) :
    \A rows \in SelectMessages(db, out.emits[k].room) :
      \E a \in DOMAIN rows :
        /\ rows[a].role = "assistant"
        /\ rows[a].content = out.emits[k].payload.content
        /\ \E u \in 1..(a - 1) : rows[u].role = "user"

CountUser(rows, content) ==
  Cardinality({k \in DOMAIN rows : rows[k].role = "user" /\ rows[k].content = content})

\* C8: whatever else happened in between, the history of a lobby holds at
\* least as many user messages of each content as sends of that content
\* were accepted for the lobby, holds rows of that lobby only, and is in
\* non-decreasing createdAt order.
C8_HistoryHasEverySend ==
  \A code \in DOMAIN lobbies :
    \A res \in GetMessagesResponses(lobbies, db, code) :
      /\ res.status = 200
      /\ \A x \in ValidContents : CountUser(res.messages, x) >= sends[code][x]
      /\ \A k \in DOMAIN res.messages : res.messages[k].lobbyCode = code
      /\ \A k \in 1..(Len(res.messages) - 1) :
           res.messages[k].createdAt <= res.messages[k + 1].createdAt

\* C8 witness: a history was read whose rows were stored against the order
\* of their createdAt, after accepted sends.
C8_Witness ==
  /\ out.op = "getMessages" /\ out.res[1].status = 200
  /\ Len(out.res[1].messages) >= 2
  /\ out.res[1].messages[1].id > out.res[1].messages[2].id
  /\ out.res[1].messages[1].createdAt < out.res[1].messages[2].createdAt
  /\ \E code \in GenCodes : sends[code][Content1] >= 2

\* C9 (as claimed): when the store fails to take an accepted user message,
\* the message is still sent to the lobby and the sender is told of no
\* failure.
C9_StoreFailureStillDelivers ==
  \A s \in Sockets, payload \in MessagePayloads :
    (conn[s] = "open" /\ MessageSchemaOk(payload) /\ Has(lobbies, payload.code))
      => \E m \in {OnMessage(lobbies, db, pending, rooms, payload, FALSE, <<1, 1, 1>>)} :
           /\ m.emits # <<>>
           /\ m.emits[1].event = "message"
           /\ m.emits[1].payload.role = "user"
           /\ m.emits[1].payload.content = payload.content
           /\ m.emits[1].to = rooms[payload.code]
           /\ \A k \in DOMAIN m.acks : m.acks[k].error = Undefined

\* Every key value a lobby can hold in either run.
Credentials == Keys2 \cup {EnvKey}

RowStrings(row) == {row.lobbyCode, row.sender, row.role, row.content}

ResStrings(r) ==
  (IF "error" \in DOMAIN r THEN {r.error} ELSE {})
    \cup (IF "code" \in DOMAIN r THEN {r.code} ELSE {})
    \cup (IF "details" \in DOMAIN r THEN r.details ELSE {})
    \cup (IF "messages" \in DOMAIN r
            THEN UNION {RowStrings(r.messages[k]) : k \in DOMAIN r.messages} ELSE {})

OutStrings(o) ==
  UNION {EmitStrings(o.emits[k]) : k \in DOMAIN o.emits}
    \cup {o.acks[k].error : k \in DOMAIN o.acks}
    \cup UNION {ResStrings(o.res[k]) : k \in DOMAIN o.res}

\* C10: no response, acknowledgement or broadcast carries a lobby's key and
\* no row of the store holds it; two runs given the same requests, the keys
\* of the lobbies apart, give the clients the same outputs and leave the
\* same store.  The provider's answers are requests' inputs like any other:
\* both runs get the same ones.
C10_KeyNeverObservable ==
  /\ out2 = out
  /\ db2 = db
  /\ OutStrings(out) \cap Credentials = {}
  /\ OutStrings(out2) \cap Credentials = {}
  /\ \A i \in DOMAIN db : RowStrings(db[i]) \cap Credentials = {}
  /\ \A i \in DOMAIN db2 : RowStrings(db2[i]) \cap Credentials = {}

\* C10 witness: the two runs hold different keys for a lobby whose provider
\* call has returned and whose reply is stored.
C10_Witness ==
  /\ out.op = "assistant" /\ Len(out.emits) = 1
  /\ lobbies[out.emits[1].room].openaiKey # lobbies2[out.emits[1].room].openaiKey
  /\ \E i \in DOMAIN db : db[i].role = "assistant"

MessageEmits(emits) == {k \in DOMAIN emits : emits[k].event = "message"}

\* The row of the store that holds the message an emit carries.
IsRowOf(row, e) ==
  /\ row.lobbyCode = e.room
  /\ row.sender = e.payload.sender
  /\ row.role = e.payload.role
  /\ row.content = e.payload.content
  /\ row.createdAt = e.payload.createdAt

\* C11 (as claimed): every message sent in a message event has an id equal
\* to its createdAt, every row of the history has an id equal to its
\* createdAt, and the row of the history that holds a message sent has the
\* id the message was sent with.
C11_IdIsCreatedAt ==
  /\ \A k \in MessageEmits(out.emits) :
       out.emits[k].payload.id = out.emits[k].payload.createdAt
  /\ \A code \in DOMAIN lobbies : \A rows \in SelectMessages(db, code) :
       \A i \in DOMAIN rows : rows[i].id = rows[i].createdAt
  /\ \A k \in MessageEmits(out.emits) :
       \A rows \in SelectMessages(db, out.emits[k].room) :
         \A i \in DOMAIN rows :
           IsRowOf(rows[i], out.emits[k]) => rows[i].id = out.emits[k].payload.id

\* C12 (as claimed): a connection has an entry in a lobby's membership table
\* only between its successful join and its disconnect: a connection that
\* has not connected yet or has disconnected is in no lobby's table.
C12_MemberOnlyWhileConnected ==
  \A s \in Sockets :
    conn[s] # "open" => \A code \in GenCodes : ~IsMember(s, code)

\* The roster of a lobby's membership table: one name per entry, one entry
\* per connection.
IsRosterOf(names, users, code) ==
  /\ Has(users, code)
  /\ names = OMapValues(users[code])
  /\ Len(names) = Cardinality(OMapKeys(users[code]))

\* C13: a users event for a lobby carries the display names of the entries
\* of the lobby's membership table as the handler leaves it, one per member
\* connection; the users event of a successful join goes to every
\* subscriber of the lobby, the connection that joined among them.
C13_RosterIsMembership ==
  /\ \A s \in Sockets, payload \in RosterJoinPayloads :
       \E j \in {OnJoinLobby(s, payload)} :
         j.acks = AckOk
           => /\ Len(j.emits) = 1
              /\ j.emits[1].event = "users"
              /\ j.emits[1].room = payload.code
              /\ IsRosterOf(j.emits[1].payload, j.lobbyUsers, payload.code)
              /\ j.emits[1].to = j.rooms[payload.code]
              /\ s \in j.emits[1].to
  /\ \A s \in Sockets :
       \E d \in {OnDisconnect(s)} :
         \A k \in DOMAIN d.emits :
           /\ d.emits[k].event = "users"
           /\ IsRosterOf(d.emits[k].payload, d.lobbyUsers, d.emits[k].room)
  /\ \A k \in DOMAIN out.emits :
       out.emits[k].event = "users"
         => IsRosterOf(out.emits[k].payload, lobbyUsers, out.emits[k].room)

\* C13 witness: the second member of a lobby joined and the roster of both
\* names went to both.
C13_Witness ==
  /\ out.op = "joinLobby" /\ out.acks = AckOk
  /\ Len(out.emits[1].payload) = 2
  /\ out.emits[1].payload[1] # out.emits[1].payload[2]
  /\ out.emits[1].to = Sockets

\* C14: the acknowledgement of an accepted send is given by the message
\* handler itself, once the user message is stored and sent, while the
\* provider call the send started is still outstanding; it does not depend
\* on the call ever returning.
C14_AckDoesNotWait ==
  /\ \A payload \in MessagePayloads :
       MessageAck(lobbies, payload) = AckOk
         => \E m \in {OnMessage(lobbies, db, pending, rooms, payload, TRUE, <<1, 1, 1>>)} :
              /\ m.acks = AckOk
              /\ m.db = InsertMessage(db, payload.code, payload.nickname, "user",
                                      payload.content, 1)
              /\ m.emits[1] = Emit(rooms, payload.code, "message", UserMessage(payload, 1))
              /\ ~Falsy(lobbies[payload.code].openaiKey)
                   => /\ Len(m.pending) = Len(pending) + 1
                      /\ m.pending[Len(m.pending)].content = payload.content
                      /\ AssistantEmits(m.emits) = {}
  /\ (out.op = "message" /\ Len(out.emits) = 1)
       => /\ out.acks = AckOk
          /\ pending # <<>>
          /\ pending[Len(pending)].content = out.emits[1].payload.content

\* C14 witness: a send was acknowledged and its provider call has not returned.
C14_Witness ==
  /\ out.op = "message" /\ out.acks = AckOk /\ Len(out.emits) = 1
  /\ out.emits[1].to # {}
  /\ pending # <<>>
  /\ \E i \in DOMAIN db : db[i].role = "user" /\ db[i].content = out.emits[1].payload.content

\* A user row of the lobby with the content, stored before row n.
UserRowBefore(D, n, code, content) ==
  \E k \in 1..(n - 1) :
    D[k].role = "user" /\ D[k].lobbyCode = code /\ D[k].content = content

C17_RejectedSendEffects ==
  /\ [](\A payload \in MessagePayloads, dbOk \in BOOLEAN :
          (~MessageSchemaOk(payload) \/ ~Has(lobbies, payload.code))
            => \E m \in {OnMessage(lobbies, db, pending, rooms, payload, dbOk, <<1, 1, 1>>)} :
                 /\ IsError(m.acks)
                 /\ m.acks[1].error \in {InvalidPayload, LobbyNotFound}
                 /\ m.emits = <<>>
                 /\ m.db = db
                 /\ m.pending = pending)
  /\ [][(out'.op = "message" /\ IsError(out'.acks))
          => /\ out'.emits = <<>>
             /\ UNCHANGED <<db, pending, lobbies, member>>]_vars

\* C17 witness: a send for a code that is no lobby was refused while
\* another lobby has a member and a stored message.
C17_Witness ==
  /\ out.op = "message" /\ out.acks = AckError(LobbyNotFound)
  /\ db # <<>>
  /\ \E code \in DOMAIN lobbyUsers : lobbyUsers[code] # <<>>

EntriesOf(om, s) == {i \in DOMAIN om : om[i][1] = s}

\* C18: when a connection that has an entry in a lobby's membership table
\* joins that lobby again, the join is acknowledged without error, the
\* table still has exactly one entry for the connection, that entry holds
\* the nickname of this join, and the other entries are as they were.
C18_RejoinIdempotent ==
  \A s \in Sockets, payload \in RosterJoinPayloads :
    (IsMember(s, payload.code) /\ JoinLobbySchemaOk(payload))
      => \E j \in {OnJoinLobby(s, payload)} :
           /\ j.acks = AckOk
           /\ Cardinality(EntriesOf(j.lobbyUsers[payload.code], s)) = 1
           /\ \A i \in EntriesOf(j.lobbyUsers[payload.code], s) :
                j.lobbyUsers[payload.code][i][2] = payload.nickname
           /\ Len(j.lobbyUsers[payload.code]) = Len(lobbyUsers[payload.code])
           /\ \A i \in DOMAIN lobbyUsers[payload.code] :
                lobbyUsers[payload.code][i][1] # s
                  => j.lobbyUsers[payload.code][i] = lobbyUsers[payload.code][i]
           /\ j.socketToLobby[s] = payload.code
           /\ j.socketToNickname[s] = payload.nickname

\* C18 witness: the connection that joined last is the first of the two
\* entries of the lobby's table, where it was before the other joined, and
\* its entry now holds another nickname than the other's.
C18_Witness ==
  /\ out.op = "joinLobby" /\ out.acks = AckOk
  /\ Len(lobbyUsers[out.emits[1].room]) = 2
  /\ lobbyUsers[out.emits[1].room][1][1] = out.sid
  /\ lobbyUsers[out.emits[1].room][1][2] # lobbyUsers[out.emits[1].room][2][2]

\* C19 (as claimed): in every reachable state the connections subscribed to
\* a lobby's room are the connections of the lobby's membership table, and
\* each of them is recorded as a member of that lobby and of no other, so
\* that a connection is sent the events of that lobby only.
C19_RoomsAreMembership ==
  \A code \in GenCodes :
    /\ rooms[code] = (IF Has(lobbyUsers, code) THEN OMapKeys(lobbyUsers[code]) ELSE {})
    /\ \A s \in rooms[code] : Has(socketToLobby, s) /\ socketToLobby[s] = code
    /\ \A k \in DOMAIN out.emits :
         \A s \in out.emits[k].to :
           Has(socketToLobby, s) /\ socketToLobby[s] = out.emits[k].room

\* C20 (as claimed): a request that creates a lobby leaves the lobbies that
\* exist as they are: their key, their membership table and their room's
\* subscribers, whatever code generateCode returns.
C20_CreateLobbyFrame ==
  [][(out'.op = "createLobby" /\ out'.res[1].status = 200)
       => \A code \in DOMAIN lobbies :
            /\ lobbies'[code] = lobbies[code]
            /\ lobbyUsers'[code] = lobbyUsers[code]
            /\ rooms'[code] = rooms[code]]_vars
====
